---- MODULE Spec2Model ----
(***************************************************************************)
(* Model of logparser/logparser.py: LogContainer (append-only store with   *)
(* one sorted bucket per searchable field, queried by bisection) and       *)
(* CustomLog.load (line-oriented parser that reassembles multi-line        *)
(* messages and appends the completed entries).                            *)
(*                                                                         *)
(* Python values are tagged records [t, v]: t is the Python type, v the    *)
(* payload.  Strings are sequences of one-character strings, so slicing,   *)
(* rstrip, the entry regexp and lexicographic comparison are computed.     *)
(* Bucket positions are 0-based as in the source; entries[i] of the source *)
(* is entries[i + 1] here.                                                 *)
(***************************************************************************)
EXTENDS Integers, Sequences, FiniteSets, TLC

VARIABLES
    entries,            \* self._entries
    searchable_fields,  \* self._searchable_fields
    buckets,            \* self._buckets: field name -> sorted <<key, index>> pairs
    converters,         \* LogContainer._converters (one dict shared by all instances)
    call,               \* the last container/loader call and its arguments
    result,             \* what that call raised, and what it returned
    data,               \* the iterable of lines handed to load (numbers of LineTable)
    idx,                \* number of lines of data the loop of load has consumed
    entry_data,         \* the local entry_data of load (empty outside load)
    pc,                 \* where load is: "idle", "loading", "done", "raised"
    snapshot            \* the list a caller got from the entries property

vars == <<entries, searchable_fields, buckets, converters, call, result,
          data, idx, entry_data, pc, snapshot>>

-----------------------------------------------------------------------------
(* Bounds of the model. *)

MaxEntries == 3

MaxLines == 4

MaxLogLines == 3

MaxReloadLines == 2

MaxLoaded == 2

-----------------------------------------------------------------------------
(* Python values. *)

IntV(n) == [t |-> "int", v |-> n]

StrV(s) == [t |-> "str", v |-> s]

DateV(d) == [t |-> "datetime", v |-> d]

\* A float holding a whole number of seconds, kept as <<days, seconds of the
\* day>> (the numbers of seconds since 1970 of early dates exceed the
\* integers of the checker)
FloatV(days, seconds) == [t |-> "float", v |-> <<days, seconds>>]

DaysAndSeconds(n) == <<n \div 86400, n % 86400>>

SecondsLess(p, q) == p[1] < q[1] \/ (p[1] = q[1] /\ p[2] < q[2])

None == [t |-> "None", v |-> 0]

\* bool(x) as Python evaluates it in "if value_to:"
Truthy(x) ==
    CASE x.t = "None" -> FALSE
      [] x.t = "int" -> x.v # 0
      [] x.t = "str" -> Len(x.v) # 0
      [] OTHER -> TRUE

Min(S) == CHOOSE x \in S : \A y \in S : x <= y

\* The characters the model uses, in ASCII order; Ord is order-isomorphic
\* to the byte value on them.
Ascii ==
    <<"\n", " ", "'", "-", "0", "1", "2", "3", "4", "5", "6", "7", "8", "9",
      ":", "A", "B", "C", "D", "E", "F", "G", "I", "N", "O", "R", "S", "U",
      "W", "X", "_", "a", "b", "c", "d", "e", "f", "x">>

Ord(c) == CHOOSE i \in 1..Len(Ascii) : Ascii[i] = c

\* str.__lt__: bytewise lexicographic order
LexLess(a, b) ==
    LET n == IF Len(a) < Len(b) THEN Len(a) ELSE Len(b)
        d == {i \in 1..n : a[i] # b[i]}
    IN  IF d = {} THEN Len(a) < Len(b)
        ELSE Ord(a[Min(d)]) < Ord(b[Min(d)])

\* x < y on sort keys (Python 2: numbers order before strings)
KeyLess(x, y) ==
    CASE x.t = "int" /\ y.t = "int" -> x.v < y.v
      [] x.t = "str" /\ y.t = "str" -> LexLess(x.v, y.v)
      [] x.t = "float" /\ y.t = "float" -> SecondsLess(x.v, y.v)
      [] x.t = "int" /\ y.t = "float" -> SecondsLess(DaysAndSeconds(x.v), y.v)
      [] x.t = "float" /\ y.t = "int" -> SecondsLess(x.v, DaysAndSeconds(y.v))
      [] OTHER -> x.t \in {"int", "float"} /\ y.t = "str"

\* (key, index) < (key', index') on tuples: first differing component decides
TupleLess(p, q) ==
    IF p[1] # q[1] THEN KeyLess(p[1], q[1]) ELSE p[2] < q[2]

-----------------------------------------------------------------------------
(* Converters.  A conversion yields [ok, v]: the key, or the exception. *)

Ok(v) == [ok |-> TRUE, v |-> v]

Raise(e) == [ok |-> FALSE, v |-> e]

ERROR == <<"E", "R", "R", "O", "R">>

WARN == <<"W", "A", "R", "N">>

DEBUG == <<"D", "E", "B", "U", "G">>

\* Mutation: an unknown loglevel gets a sort key instead of an exception
_loglevel_converter_Lenient(loglevel) ==
    CASE loglevel = StrV(ERROR) -> Ok(IntV(2))
      [] loglevel = StrV(WARN) -> Ok(IntV(4))
      [] loglevel = StrV(DEBUG) -> Ok(IntV(8))
      [] OTHER -> Ok(IntV(0))

_loglevel_converter(loglevel) ==
    CASE loglevel = StrV(ERROR) -> Ok(IntV(2))
      [] loglevel = StrV(WARN) -> Ok(IntV(4))
      [] loglevel = StrV(DEBUG) -> Ok(IntV(8))
      [] OTHER -> Raise("ValueError")

IsLeap(y) == y % 4 = 0 /\ (y % 100 # 0 \/ y % 400 = 0)

DaysInMonth(y, m) ==
    CASE m \in {4, 6, 9, 11} -> 30
      [] m = 2 -> IF IsLeap(y) THEN 29 ELSE 28
      [] OTHER -> 31

DaysBeforeYear(y) ==
    LET p == y - 1 IN p * 365 + p \div 4 - p \div 100 + p \div 400

RECURSIVE DaysBeforeMonth(_, _)
DaysBeforeMonth(y, m) ==
    IF m = 1 THEN 0 ELSE DaysBeforeMonth(y, m - 1) + DaysInMonth(y, m - 1)

\* date.toordinal()
ToOrdinal(d) == DaysBeforeYear(d[1]) + DaysBeforeMonth(d[1], d[2]) + d[3]

\* (date - datetime(1970, 1, 1)).total_seconds()
_datetime_converter(date) ==
    IF date.t = "datetime"
    THEN Ok(FloatV(ToOrdinal(date.v) - ToOrdinal(<<1970, 1, 1, 0, 0, 0>>),
                   date.v[4] * 3600 + date.v[5] * 60 + date.v[6]))
    ELSE Raise("TypeError")

\* xid[4:]
_xid_converter(xid) ==
    IF xid.t = "str"
    THEN Ok(StrV(SubSeq(xid.v, 5, Len(xid.v))))
    ELSE Raise("TypeError")

Convert(converter, value) ==
    CASE converter = "_datetime_converter" -> _datetime_converter(value)
      [] converter = "_loglevel_converter" -> _loglevel_converter(value)
      [] converter = "_xid_converter" -> _xid_converter(value)

_marshall_value(field_name, value) ==
    IF field_name \in DOMAIN converters
    THEN Convert(converters[field_name], value)
    ELSE Ok(value)

\* The registry after CustomLog.__init__ has run
CustomConverters ==
    [f \in {"date", "loglevel", "sessionid", "businessid"} |->
        CASE f = "date" -> "_datetime_converter"
          [] f = "loglevel" -> "_loglevel_converter"
          [] OTHER -> "_xid_converter"]

NoConverters == [f \in {} |-> "_xid_converter"]

-----------------------------------------------------------------------------
(* bisect *)

RECURSIVE bisect_right(_, _, _, _)
bisect_right(a, x, lo, hi) ==
    IF lo < hi
    THEN LET mid == (lo + hi) \div 2
         IN  IF TupleLess(x, a[mid + 1])
             THEN bisect_right(a, x, lo, mid)
             ELSE bisect_right(a, x, mid + 1, hi)
    ELSE lo

RECURSIVE bisect_left(_, _, _, _)
bisect_left(a, x, lo, hi) ==
    IF lo < hi
    THEN LET mid == (lo + hi) \div 2
         IN  IF TupleLess(a[mid + 1], x)
             THEN bisect_left(a, x, mid + 1, hi)
             ELSE bisect_left(a, x, lo, mid)
    ELSE lo

InsertAt(a, lo, x) == SubSeq(a, 1, lo) \o <<x>> \o SubSeq(a, lo + 1, Len(a))

\* Mutation: the pair is put at the end of the bucket, not at its sorted place
insort_right_AtEnd(a, x) == Append(a, x)

insort_right(a, x) == InsertAt(a, bisect_right(a, x, 0, Len(a)), x)

-----------------------------------------------------------------------------
(* LogContainer *)

EmptyBuckets(fields) == [f \in {fields[i] : i \in 1..Len(fields)} |-> <<>>]

\* The loop of append over self._searchable_fields from field number i on:
\* [buckets, raised], stopping at the first field that raises.
RECURSIVE IndexFields(_, _, _, _)
IndexFields(b, i, entry, last_index) ==
    IF i > Len(searchable_fields)
    THEN [buckets |-> b, raised |-> "none"]
    ELSE LET field == searchable_fields[i]
         IN  IF field \notin DOMAIN entry
             THEN [buckets |-> b, raised |-> "MissingFieldError"]
             ELSE LET sortable_value == _marshall_value(field, entry[field])
                  IN  IF ~sortable_value.ok
                      THEN [buckets |-> b, raised |-> "ConversionError"]
                      ELSE IndexFields(
                               [b EXCEPT ![field] =
                                   insort_right(@, <<sortable_value.v, last_index>>)],
                               i + 1, entry, last_index)

\* Mutation: the entry is inserted at the front of the list
AppendEntries_AtFront(es, entry) == <<entry>> \o es

\* self._entries.append(entry)
AppendEntries(es, entry) == Append(es, entry)

\* LogContainer.append: the entries and buckets it leaves, and what it raised
append(entry) ==
    LET es == AppendEntries(entries, entry)
        r == IndexFields(buckets, 1, entry, Len(es) - 1)
    IN  [entries |-> es, buckets |-> r.buckets, raised |-> r.raised]

Returned(found) == [raised |-> "none", found |-> found]

Raised(e) == [raised |-> e, found |-> <<>>]

\* LogContainer.find_by
find_by(field_name, value, value_to) ==
    LET lo_key == _marshall_value(field_name, value)
        hi_key == IF Truthy(value_to)
                  THEN _marshall_value(field_name, value_to)
                  ELSE lo_key
    IN  IF ~lo_key.ok \/ ~hi_key.ok
        THEN Raised("ConversionError")
        ELSE IF field_name \notin DOMAIN buckets
        THEN Raised("UnknownFieldError")
        ELSE LET bucket == buckets[field_name]
                 low == bisect_left(bucket, <<lo_key.v, 0>>, 0, Len(bucket))
                 high == bisect_right(bucket, <<hi_key.v, Len(entries)>>,
                                      low, Len(bucket))
             IN  Returned([k \in 1..(high - low) |-> entries[bucket[low + k][2] + 1]])

-----------------------------------------------------------------------------
(* Calls *)

NoCall ==
    [op |-> "none", entry |-> <<>>, field_name |-> "", value |-> None,
     value_to |-> None]

AppendCall(entry) == [NoCall EXCEPT !.op = "append", !.entry = entry]

FindCall(field_name, value, value_to) ==
    [NoCall EXCEPT !.op = "find_by", !.field_name = field_name,
                   !.value = value, !.value_to = value_to]

-----------------------------------------------------------------------------
(* A plain LogContainer driven by its callers. *)

PlainFieldLists == {<<"a">>, <<"a", "b">>, <<"a", "a">>}

IntValues == {IntV(-1), IntV(0), IntV(1)}

\* Entries expose a subset of the attributes a, b
PlainEntries ==
    [{"a"} -> IntValues]
    \cup {[f \in {"a", "b"} |-> IntV(0)]}
    \cup {[f \in {"b"} |-> IntV(0)]}

QueryFields == {"a", "b", "sessionid"}

\* A list the caller holds: the object it is (a copy, or the list _entries
\* of the container itself) and its items
NoSnapshot == [ref |-> "none", items |-> <<>>]

\* What the caller's list shows once _entries holds es
SeenThrough(s, es) == IF s.ref = "_entries" THEN [s EXCEPT !.items = es] ELSE s

LoaderIdle ==
    /\ data = <<>>
    /\ idx = 0
    /\ entry_data = <<>>
    /\ pc = "idle"

Init ==
    /\ searchable_fields \in PlainFieldLists
    /\ entries = <<>>
    /\ buckets = EmptyBuckets(searchable_fields)
    /\ converters = NoConverters
    /\ call = NoCall
    /\ result = Returned(<<>>)
    /\ LoaderIdle
    /\ snapshot = NoSnapshot

AppendOneOf(S) ==
    \E entry \in S :
        /\ Len(entries) < MaxEntries
        /\ LET r == append(entry)
           IN  /\ entries' = r.entries
               /\ buckets' = r.buckets
               /\ result' = Raised(r.raised)
               /\ snapshot' = SeenThrough(snapshot, r.entries)
        /\ call' = AppendCall(entry)
        /\ UNCHANGED <<searchable_fields, converters, data, idx, entry_data, pc>>

DoAppend == AppendOneOf(PlainEntries)

FindByOneOf(F, V, W) ==
    \E field_name \in F, value \in V, value_to \in W :
        /\ result' = find_by(field_name, value, value_to)
        /\ call' = FindCall(field_name, value, value_to)
        /\ UNCHANGED <<entries, searchable_fields, snapshot, buckets, converters,
                       data, idx, entry_data, pc>>

DoFindBy == FindByOneOf(QueryFields, IntValues, IntValues \cup {None})

\* CustomLog.__init__ of another instance: it registers its converters in
\* the dict that every LogContainer shares
CustomLogInit ==
    /\ converters' = [f \in DOMAIN converters \cup DOMAIN CustomConverters |->
                        CustomConverters[f]]
    /\ call' = NoCall
    /\ result' = Returned(<<>>)
    /\ UNCHANGED <<entries, searchable_fields, snapshot, buckets,
                   data, idx, entry_data, pc>>

Next == DoAppend \/ DoFindBy \/ CustomLogInit

Spec == Init /\ [][Next]_vars

-----------------------------------------------------------------------------
(* A plain LogContainer whose caller reads the entries property and edits  *)
(* the list it got.                                                        *)

SnapshotEntries == {[a |-> IntV(0)], [a |-> IntV(1)]}

InitSnapshot ==
    /\ searchable_fields = <<"a">>
    /\ entries = <<>>
    /\ buckets = EmptyBuckets(searchable_fields)
    /\ converters = NoConverters
    /\ call = NoCall
    /\ result = Returned(<<>>)
    /\ LoaderIdle
    /\ snapshot = NoSnapshot

\* Mutation: return self._entries
EntriesProperty_NoCopy == [ref |-> "_entries", items |-> entries]

\* The entries property: return self._entries[:]
EntriesProperty == [ref |-> "copy", items |-> entries]

Reverse(s) == [i \in 1..Len(s) |-> s[Len(s) + 1 - i]]

\* list.append(x), list.pop(), list.reverse() on the caller's list
Edited(op, items) ==
    CASE op = "append" -> Append(items, [a |-> IntV(0)])
      [] op = "pop" -> SubSeq(items, 1, Len(items) - 1)
      [] op = "reverse" -> Reverse(items)

EditCall(op) == [NoCall EXCEPT !.op = "edit", !.field_name = op]

GetEntries ==
    /\ snapshot' = EntriesProperty
    /\ call' = [NoCall EXCEPT !.op = "entries"]
    /\ result' = Returned(<<>>)
    /\ UNCHANGED <<entries, searchable_fields, buckets, converters,
                   data, idx, entry_data, pc>>

\* The caller edits the list it got; an edit of the list _entries itself
\* is an edit of the container
EditSnapshot ==
    /\ snapshot.ref # "none"
    /\ \E op \in {"append", "pop", "reverse"} :
           /\ op = "append" => Len(snapshot.items) <= MaxEntries
           /\ op = "pop" => Len(snapshot.items) > 0
           /\ snapshot' = [snapshot EXCEPT !.items = Edited(op, snapshot.items)]
           /\ entries' = IF snapshot.ref = "_entries"
                         THEN Edited(op, snapshot.items)
                         ELSE entries
           /\ call' = EditCall(op)
    /\ result' = Returned(<<>>)
    /\ UNCHANGED <<searchable_fields, buckets, converters, data, idx, entry_data, pc>>

SnapshotAppend == AppendOneOf(SnapshotEntries)

SnapshotFindBy == FindByOneOf({"a"}, {IntV(0), IntV(1)}, {None})

NextSnapshot == GetEntries \/ EditSnapshot \/ SnapshotAppend \/ SnapshotFindBy

SpecSnapshot == InitSnapshot /\ [][NextSnapshot]_vars

-----------------------------------------------------------------------------
(* CustomLog: the entry regexp, strptime and load. *)

Digits == {"0", "1", "2", "3", "4", "5", "6", "7", "8", "9"}

\* [0-9a-f]
HexDigits == Digits \cup {"a", "b", "c", "d", "e", "f"}

\* \w: letters, digits and the underscore
WordChars == {Ascii[i] : i \in 1..Len(Ascii)} \ {"\n", " ", "'", "-", ":"}

\* str.rstrip() strips these (the whitespace of the model's alphabet)
Whitespace == {" ", "\n"}

\* the dot of the regexp: any character but a newline
Dot == {Ascii[i] : i \in 1..Len(Ascii)} \ {"\n"}

_message_boundary == "'"

\* How many characters of s from position i on lie in the class C (greedy)
Run(s, i, C) ==
    LET stops == {k \in i..Len(s) : s[k] \notin C}
    IN  IF stops = {} THEN Len(s) - i + 1 ELSE Min(stops) - i

\* The literal lit stands in s at position i
Lit(s, i, lit) ==
    /\ i + Len(lit) - 1 <= Len(s)
    /\ SubSeq(s, i, i + Len(lit) - 1) = lit

\* \d{4}-\d{2}-\d{2} \d{2}:\d{2}:\d{2} ("d" stands for \d)
DatePattern ==
    <<"d", "d", "d", "d", "-", "d", "d", "-", "d", "d", " ",
      "d", "d", ":", "d", "d", ":", "d", "d">>

MatchesDate(s) ==
    /\ Len(s) >= Len(DatePattern)
    /\ \A i \in 1..Len(DatePattern) :
           IF DatePattern[i] = "d" THEN s[i] \in Digits ELSE s[i] = DatePattern[i]

NoMatch == [matched |-> FALSE]

\* A tag "XID:" followed by a greedy run of the class C and a space, at
\* position p of s: the length of the run, or 0 when it does not match
TagRun(s, p, tag, C) ==
    IF Lit(s, p, tag)
    THEN LET n == Run(s, p + Len(tag), C)
         IN  IF n >= 1 /\ Lit(s, p + Len(tag) + n, <<" ">>) THEN n ELSE 0
    ELSE 0

\* _entry_re.match(line): the groups of the match at the start of line.  A
\* greedy class followed by a literal outside the class leaves no choice, so
\* the match is computed left to right.
_entry_re_match(line) ==
    IF ~(MatchesDate(line) /\ Lit(line, 20, <<" ">>))
    THEN NoMatch
    ELSE LET w == Run(line, 21, WordChars)
             ps == 22 + w
             ns == TagRun(line, ps, <<"S", "I", "D", ":">>, Digits)
             pb == ps + 4 + ns + 1
             nb == TagRun(line, pb, <<"B", "I", "D", ":">>, Digits)
             pr == pb + 4 + nb + 1
             nr == TagRun(line, pr, <<"R", "I", "D", ":">>, HexDigits)
             pm == pr + 4 + nr + 1
         IN  IF /\ w >= 1
                /\ Lit(line, 21 + w, <<" ">>)
                /\ ns >= 1
                /\ nb >= 1
                /\ nr >= 1
                /\ Lit(line, pm, <<_message_boundary>>)
             THEN [matched |-> TRUE,
                   date |-> SubSeq(line, 1, 19),
                   loglevel |-> SubSeq(line, 21, 20 + w),
                   sessionid |-> SubSeq(line, ps, ps + 3 + ns),
                   businessid |-> SubSeq(line, pb, pb + 3 + nb),
                   requestid |-> SubSeq(line, pr, pr + 3 + nr),
                   \* '.* : the dot stops at a newline
                   message |-> SubSeq(line, pm,
                                      pm + Run(line, pm + 1, Dot))]
             ELSE NoMatch

DigitValue(c) == Ord(c) - Ord("0")

RECURSIVE Number(_)
Number(s) ==
    IF Len(s) = 0 THEN 0
    ELSE 10 * Number(SubSeq(s, 1, Len(s) - 1)) + DigitValue(s[Len(s)])

\* datetime.strptime(text, "%Y-%m-%d %H:%M:%S") on a text the entry regexp
\* accepted: the datetime, or ValueError when a field is out of range
strptime(text) ==
    LET Y == Number(SubSeq(text, 1, 4))
        M == Number(SubSeq(text, 6, 7))
        D == Number(SubSeq(text, 9, 10))
        h == Number(SubSeq(text, 12, 13))
        m == Number(SubSeq(text, 15, 16))
        sec == Number(SubSeq(text, 18, 19))
    IN  IF /\ Y >= 1
           /\ M \in 1..12
           /\ D >= 1
           /\ D <= DaysInMonth(Y, M)
           /\ h <= 23
           /\ m <= 59
           /\ sec <= 59
        THEN Ok(DateV(<<Y, M, D, h, m, sec>>))
        ELSE Raise("ValueError")

\* str.rstrip()
rstrip(s) ==
    LET keep == {k \in 1..Len(s) : s[k] \notin Whitespace}
    IN  IF keep = {} THEN <<>> ELSE SubSeq(s, 1, CHOOSE k \in keep : \A j \in keep : j <= k)

EndsWithBoundary(s) == Len(s) > 0 /\ s[Len(s)] = _message_boundary

CustomFields == <<"date", "loglevel", "sessionid", "businessid">>

\* Mutation: the message of a pending entry is kept and extended
EntryData_KeepsPending(match, date) ==
    [date |-> date,
     loglevel |-> StrV(match.loglevel),
     sessionid |-> StrV(match.sessionid),
     businessid |-> StrV(match.businessid),
     requestid |-> StrV(match.requestid),
     message |-> IF DOMAIN entry_data # {}
                 THEN StrV(entry_data.message.v \o match.message)
                 ELSE StrV(match.message)]

\* The dict built from the groups of a match whose date strptime accepted
EntryData(match, date) ==
    [date |-> date,
     loglevel |-> StrV(match.loglevel),
     sessionid |-> StrV(match.sessionid),
     businessid |-> StrV(match.businessid),
     requestid |-> StrV(match.requestid),
     message |-> StrV(match.message)]

NoEntryData == <<>>

Pending == DOMAIN entry_data # {}

\* Mutation: message = text instead of message += text
WithMessage_Overwrites(e, text) == [e EXCEPT !.message = StrV(text)]

WithMessage(e, text) == [e EXCEPT !.message = StrV(e.message.v \o text)]

LoadCallRecord == [NoCall EXCEPT !.op = "load"]

\* Mutation: entry_data is not emptied after the append
AppendFromLoad_KeepsEntryData(e) ==
    LET r == append(e)
    IN  /\ entries' = r.entries
        /\ buckets' = r.buckets
        /\ IF r.raised = "none"
           THEN /\ entry_data' = e
                /\ pc' = "loading"
                /\ result' = Returned(<<>>)
           ELSE /\ entry_data' = NoEntryData
                /\ pc' = "raised"
                /\ result' = Raised(r.raised)

\* self.append(self.LogEntry(**entry_data)) inside load, then entry_data = {};
\* an exception of append leaves load at once, and its locals with it
AppendFromLoad(e) ==
    LET r == append(e)
    IN  /\ entries' = r.entries
        /\ buckets' = r.buckets
        /\ IF r.raised = "none"
           THEN /\ entry_data' = NoEntryData
                /\ pc' = "loading"
                /\ result' = Returned(<<>>)
           ELSE /\ entry_data' = NoEntryData
                /\ pc' = "raised"
                /\ result' = Raised(r.raised)

-----------------------------------------------------------------------------
(* The lines of the model's inputs. *)

Date2012 ==
    <<"2", "0", "1", "2", "-", "0", "1", "-", "0", "1", " ",
      "0", "0", ":", "0", "0", ":", "0", "0">>

Date2011 ==
    <<"2", "0", "1", "1", "-", "1", "2", "-", "3", "1", " ",
      "2", "3", ":", "5", "8", ":", "0", "0">>

\* month 13: the regexp accepts it, strptime does not
DateMonth13 ==
    <<"2", "0", "1", "2", "-", "1", "3", "-", "0", "1", " ",
      "0", "0", ":", "0", "0", ":", "0", "0">>

FOO == <<"F", "O", "O">>

Header(date, loglevel, sid, message) ==
    date \o <<" ">> \o loglevel \o <<" ", "S", "I", "D", ":", sid, " ",
      "B", "I", "D", ":", "2", " ", "R", "I", "D", ":", "3", "a", " ">> \o message

\* year 999: strptime accepts it
Date0999 ==
    <<"0", "9", "9", "9", "-", "0", "1", "-", "0", "1", " ",
      "0", "0", ":", "0", "0", ":", "0", "0">>

\* Lines that only the inputs of SpecLoad use
LoadOnlyLines ==
    << Header(Date2011, ERROR, "2", <<"'", "A", "\n">>),
       Header(DateMonth13, DEBUG, "1", <<"'", "A", "'", "\n">>),
       <<"B", "\n">>,
       <<"\n">>,
       <<"B", "'", " ", "\n">> >>

SharedLines ==
    << Header(Date2012, DEBUG, "1", <<"'", "A", "'", "\n">>),
       Header(Date2012, FOO, "1", <<"'", "X", "\n">>),
       <<"C", "'">> >>

\* Lines that only the inputs of SpecLog use
LogOnlyLines ==
    << Header(Date2011, ERROR, "2", <<"'", "A", "'", "\n">>),
       Header(Date0999, WARN, "1", <<"'", "A", "'">>),
       Header(Date2012, DEBUG, "1", <<"'", "\n">>) >>

LineTable == LoadOnlyLines \o SharedLines \o LogOnlyLines

Lines == 1..(Len(LoadOnlyLines) + Len(SharedLines))

LogLines == (Len(LoadOnlyLines) + 1)..Len(LineTable)

RECURSIVE SeqsUpTo(_, _)
SeqsUpTo(S, n) ==
    IF n = 0 THEN {<<>>}
    ELSE LET shorter == SeqsUpTo(S, n - 1)
         IN  shorter \cup {Append(q, x) : q \in shorter, x \in S}

Inputs == SeqsUpTo(Lines, MaxLines)

LogInputs == SeqsUpTo(LogLines, MaxLogLines)

-----------------------------------------------------------------------------
(* A CustomLog and its load. *)

InitLoad ==
    /\ searchable_fields = CustomFields
    /\ entries = <<>>
    /\ buckets = EmptyBuckets(searchable_fields)
    /\ converters = CustomConverters
    /\ call = NoCall
    /\ result = Returned(<<>>)
    /\ LoaderIdle
    /\ snapshot = NoSnapshot

\* load(data) is called: entry_data = {}
LoadCall ==
    /\ pc = "idle"
    /\ data' \in Inputs
    /\ idx' = 0
    /\ entry_data' = NoEntryData
    /\ pc' = "loading"
    /\ call' = LoadCallRecord
    /\ result' = Returned(<<>>)
    /\ UNCHANGED <<entries, searchable_fields, snapshot, buckets, converters>>

Line == LineTable[data[idx + 1]]

\* for line in data: the line matches the regexp
HeaderLine ==
    /\ pc = "loading"
    /\ idx < Len(data)
    /\ LET match == _entry_re_match(Line)
       IN  /\ match.matched
           /\ idx' = idx + 1
           /\ LET date == strptime(match.date)
              IN  IF ~date.ok
                  THEN /\ pc' = "raised"
                       /\ result' = Raised("StrptimeError")
                       /\ entry_data' = NoEntryData
                       /\ UNCHANGED <<entries, buckets>>
                  ELSE LET e == EntryData(match, date.v)
                       IN  IF EndsWithBoundary(e.message.v)
                           THEN AppendFromLoad(e)
                           ELSE /\ entry_data' = WithMessage(e, <<"\n">>)
                                /\ UNCHANGED <<entries, buckets, pc, result>>
    /\ UNCHANGED <<searchable_fields, snapshot, converters, call, data>>

\* elif entry_data: the line belongs to the message of the pending entry
MessageLine ==
    /\ pc = "loading"
    /\ idx < Len(data)
    /\ ~_entry_re_match(Line).matched
    /\ Pending
    /\ idx' = idx + 1
    /\ LET stripped == rstrip(Line)
       IN  IF ~EndsWithBoundary(stripped)
           THEN /\ entry_data' = WithMessage(entry_data, Line)
                /\ UNCHANGED <<entries, buckets, pc, result>>
           ELSE AppendFromLoad(WithMessage(entry_data, stripped))
    /\ UNCHANGED <<searchable_fields, snapshot, converters, call, data>>

\* neither branch: the line is skipped
SkippedLine ==
    /\ pc = "loading"
    /\ idx < Len(data)
    /\ ~_entry_re_match(Line).matched
    /\ ~Pending
    /\ idx' = idx + 1
    /\ UNCHANGED <<entries, searchable_fields, snapshot, buckets, converters, call,
                   result, data, entry_data, pc>>

\* the iteration is exhausted: load returns
LoadReturn ==
    /\ pc = "loading"
    /\ idx = Len(data)
    /\ pc' = "done"
    /\ entry_data' = NoEntryData
    /\ UNCHANGED <<entries, searchable_fields, snapshot, buckets, converters, call,
                   result, data, idx>>

NextLoad == LoadCall \/ HeaderLine \/ MessageLine \/ SkippedLine \/ LoadReturn

SpecLoad == InitLoad /\ [][NextLoad]_vars

-----------------------------------------------------------------------------
(* A CustomLog that is loaded and then read: str() of its entries and the  *)
(* query functions of the module.                                          *)

DigitChar(n) == Ascii[Ord("0") + n]

\* %m, %d, %H, %M, %S: two digits, zero padded
TwoDigits(n) == <<DigitChar(n \div 10), DigitChar(n % 10)>>

\* %Y: four digits
FourDigits(n) == TwoDigits(n \div 100) \o TwoDigits(n % 100)

\* date.strftime("%Y-%m-%d %H:%M:%S"); the datetime of Python 2 refuses to
\* format a year before 1900
strftime(d) ==
    IF d[1] < 1900
    THEN Raise("ValueError")
    ELSE Ok(FourDigits(d[1]) \o <<"-">> \o TwoDigits(d[2]) \o <<"-">>
            \o TwoDigits(d[3]) \o <<" ">> \o TwoDigits(d[4]) \o <<":">>
            \o TwoDigits(d[5]) \o <<":">> \o TwoDigits(d[6]))

\* ' '.join(parts)
RECURSIVE Join(_)
Join(parts) ==
    IF Len(parts) = 0 THEN <<>>
    ELSE IF Len(parts) = 1 THEN parts[1]
    ELSE parts[1] \o <<" ">> \o Join(Tail(parts))

\* LogEntry.__str__
__str__(e) ==
    LET date == strftime(e.date.v)
    IN  IF ~date.ok
        THEN Raise("ValueError")
        ELSE Ok(Join(<<date.v, e.loglevel.v, e.sessionid.v, e.businessid.v,
                       e.requestid.v, e.message.v>>))

find_entries_with_log_level(log_level) == find_by("loglevel", log_level, None)

find_entries_with_business_id(business_id) == find_by("businessid", business_id, None)

find_entries_within_date_range(date_from, date_to) ==
    LET from == IF date_from.t = "str" THEN strptime(date_from.v) ELSE Ok(date_from)
        to == IF date_to.t = "str" THEN strptime(date_to.v) ELSE Ok(date_to)
    IN  IF ~from.ok \/ ~to.ok
        THEN Raised("StrptimeError")
        ELSE find_by("date", from.v, to.v)

find_entries_with_session_id(session_id) == find_by("sessionid", session_id, None)

StrCall(n) == [NoCall EXCEPT !.op = "str", !.value = IntV(n)]

QueryCall(op, value, value_to) ==
    [NoCall EXCEPT !.op = op, !.value = value, !.value_to = value_to]

\* Arguments of the queries
LogLevels == {StrV(ERROR), StrV(DEBUG), StrV(FOO)}

BusinessIds == {StrV(<<"B", "I", "D", ":", "2">>), StrV(<<"B", "I", "D", ":", "3">>)}

SessionIds ==
    {StrV(<<"S", "I", "D", ":", "1">>), StrV(<<"S", "I", "D", ":", "2">>),
     StrV(<<"B", "I", "D", ":", "1">>)}

DatesFrom == {StrV(Date2011), StrV(DateMonth13)}

DatesTo == {StrV(Date2012), StrV(Date2011)}

\* load(data) is called on the CustomLog
LoadLog ==
    /\ pc = "idle"
    /\ data' \in LogInputs
    /\ idx' = 0
    /\ entry_data' = NoEntryData
    /\ pc' = "loading"
    /\ call' = LoadCallRecord
    /\ result' = Returned(<<>>)
    /\ UNCHANGED <<entries, searchable_fields, snapshot, buckets, converters>>

\* The caller has control again: load returned, or raised and was caught
Loaded == pc \in {"done", "raised"}

\* str(log.entries[n])
StrEntry ==
    /\ Loaded
    /\ \E n \in 1..Len(entries) :
           LET s == __str__(entries[n])
           IN  /\ call' = StrCall(n)
               /\ result' = IF s.ok THEN Returned(s.v) ELSE Raised("StrftimeError")
    /\ UNCHANGED <<entries, searchable_fields, snapshot, buckets, converters,
                   data, idx, entry_data, pc>>

FindEntriesWithLogLevel ==
    /\ Loaded
    /\ \E log_level \in LogLevels :
           /\ call' = QueryCall("find_entries_with_log_level", log_level, None)
           /\ result' = find_entries_with_log_level(log_level)
    /\ UNCHANGED <<entries, searchable_fields, snapshot, buckets, converters,
                   data, idx, entry_data, pc>>

FindEntriesWithBusinessId ==
    /\ Loaded
    /\ \E business_id \in BusinessIds :
           /\ call' = QueryCall("find_entries_with_business_id", business_id, None)
           /\ result' = find_entries_with_business_id(business_id)
    /\ UNCHANGED <<entries, searchable_fields, snapshot, buckets, converters,
                   data, idx, entry_data, pc>>

FindEntriesWithinDateRange ==
    /\ Loaded
    /\ \E date_from \in DatesFrom, date_to \in DatesTo :
           /\ call' = QueryCall("find_entries_within_date_range", date_from, date_to)
           /\ result' = find_entries_within_date_range(date_from, date_to)
    /\ UNCHANGED <<entries, searchable_fields, snapshot, buckets, converters,
                   data, idx, entry_data, pc>>

\* find_by called on the CustomLog itself
LogFindBy ==
    /\ Loaded
    /\ FindByOneOf({"loglevel", "requestid"}, LogLevels, LogLevels \cup {None})

\* Mutation: the query takes what it found out of the session id index
FindEntriesWithSessionId_Consumes ==
    /\ Loaded
    /\ \E session_id \in SessionIds :
           /\ call' = QueryCall("find_entries_with_session_id", session_id, None)
           /\ result' = find_entries_with_session_id(session_id)
           /\ buckets' = [buckets EXCEPT !["sessionid"] =
                             SelectSeq(@, LAMBDA p :
                                 p[1] # _marshall_value("sessionid", session_id).v)]
    /\ UNCHANGED <<entries, searchable_fields, snapshot, converters,
                   data, idx, entry_data, pc>>

FindEntriesWithSessionId ==
    /\ Loaded
    /\ \E session_id \in SessionIds :
           /\ call' = QueryCall("find_entries_with_session_id", session_id, None)
           /\ result' = find_entries_with_session_id(session_id)
    /\ UNCHANGED <<entries, searchable_fields, snapshot, buckets, converters,
                   data, idx, entry_data, pc>>

NextLog ==
    \/ LoadLog
    \/ HeaderLine
    \/ MessageLine
    \/ SkippedLine
    \/ LoadReturn
    \/ StrEntry
    \/ LogFindBy
    \/ FindEntriesWithLogLevel
    \/ FindEntriesWithBusinessId
    \/ FindEntriesWithinDateRange
    \/ FindEntriesWithSessionId

SpecLog == InitLoad /\ [][NextLog]_vars

-----------------------------------------------------------------------------
(* A CustomLog whose load is called again and again, each time with a new  *)
(* input.                                                                  *)

\* An open header, a complete header, and a line that closes a message
ReloadTexts ==
    {Header(Date2011, ERROR, "2", <<"'", "A", "\n">>),
     Header(Date2012, DEBUG, "1", <<"'", "A", "'", "\n">>),
     <<"C", "'">>}

ReloadLines == {k \in 1..Len(LineTable) : LineTable[k] \in ReloadTexts}

ReloadInputs == SeqsUpTo(ReloadLines, MaxReloadLines)

\* The call load(data'), with the input the caller handed to the call before
ReloadCallRecord(previous) == [NoCall EXCEPT !.op = "load", !.entry = previous]

\* Mutation: the call resumes the entry that the last line of the input
\* before left open
LoadAgain_Resumes ==
    /\ pc \in {"idle", "done", "raised"}
    /\ Len(entries) < MaxLoaded
    /\ data' \in ReloadInputs
    /\ idx' = 0
    /\ entry_data' =
           IF Len(data) = 0 THEN NoEntryData
           ELSE LET match == _entry_re_match(LineTable[data[Len(data)]])
                IN  IF match.matched /\ ~EndsWithBoundary(match.message)
                    THEN WithMessage(EntryData(match, strptime(match.date).v), <<"\n">>)
                    ELSE NoEntryData
    /\ pc' = "loading"
    /\ call' = ReloadCallRecord(data)
    /\ result' = Returned(<<>>)
    /\ UNCHANGED <<entries, searchable_fields, snapshot, buckets, converters>>

\* load(data) is called, for the first time or after an earlier call has
\* returned or raised: entry_data = {}
LoadAgain ==
    /\ pc \in {"idle", "done", "raised"}
    /\ Len(entries) < MaxLoaded
    /\ data' \in ReloadInputs
    /\ idx' = 0
    /\ entry_data' = NoEntryData
    /\ pc' = "loading"
    /\ call' = ReloadCallRecord(data)
    /\ result' = Returned(<<>>)
    /\ UNCHANGED <<entries, searchable_fields, snapshot, buckets, converters>>

NextReload == LoadAgain \/ HeaderLine \/ MessageLine \/ SkippedLine \/ LoadReturn

SpecReload == InitLoad /\ [][NextReload]_vars

-----------------------------------------------------------------------------
(* Vocabulary of the properties of the container. *)

Searchable(field_name) == \E i \in 1..Len(searchable_fields) : searchable_fields[i] = field_name

\* The sort key of entry number p (0-based) on a field it exposes
KeyOf(field_name, p) == _marshall_value(field_name, entries[p + 1][field_name]).v

HasKey(field_name, p) ==
    /\ field_name \in DOMAIN entries[p + 1]
    /\ _marshall_value(field_name, entries[p + 1][field_name]).ok

\* not (q < p) for every p before q: ascending, equal pairs allowed
Sorted(bucket) ==
    \A i, j \in 1..Len(bucket) : i < j => ~TupleLess(bucket[j], bucket[i])

\* Positions of the entries whose key on field_name lies in [lo, hi]
InRange(field_name, lo, hi) ==
    {p \in 0..(Len(entries) - 1) :
        /\ HasKey(field_name, p)
        /\ ~KeyLess(KeyOf(field_name, p), lo)
        /\ ~KeyLess(hi, KeyOf(field_name, p))}

\* The entries at the positions S, ordered by (key on field_name, position)
ByKeyThenPosition(field_name, S) ==
    LET rank(p) == Cardinality({q \in S :
                       TupleLess(<<KeyOf(field_name, q), q>>, <<KeyOf(field_name, p), p>>)})
    IN  [k \in 1..Cardinality(S) |-> entries[(CHOOSE p \in S : rank(p) = k - 1) + 1]]

\* The entries at the positions S, in the order of entries
InArrivalOrder(S) ==
    LET rank(p) == Cardinality({q \in S : q < p})
    IN  [k \in 1..Cardinality(S) |-> entries[(CHOOSE p \in S : rank(p) = k - 1) + 1]]

\* Every field index holds one pair per entry, at positions 0..len-1
IndexMatchesEntries ==
    \A f \in DOMAIN buckets :
        /\ Len(buckets[f]) = Len(entries)
        /\ {buckets[f][i][2] : i \in 1..Len(buckets[f])} = 0..(Len(entries) - 1)

-----------------------------------------------------------------------------
(* C1: in every reachable state, each searchable field's index holds       *)
(* exactly one (sort_key, position) pair per entry: as many pairs as       *)
(* entries, at the positions 0..len(entries)-1.                            *)
C1_OnePairPerEntry == IndexMatchesEntries

(* C2: after any sequence of append calls every field index is sorted      *)
(* ascending by (sort_key, position), entries with equal keys in arrival   *)
(* order; the pair an append inserts is (converter(field value), position  *)
(* of the entry in entries).                                               *)
C2_Ascending ==
    \A f \in DOMAIN buckets :
        /\ Sorted(buckets[f])
        /\ \A i, j \in 1..Len(buckets[f]) :
               (i < j /\ buckets[f][i][1] = buckets[f][j][1])
                   => buckets[f][i][2] <= buckets[f][j][2]

C2_InsertsConvertedKey ==
    call'.op = "append" =>
        \A f \in DOMAIN buckets :
            \A i \in 1..Len(buckets'[f]) :
                buckets'[f][i][2] = Len(entries) =>
                    /\ entries'[Len(entries) + 1] = call'.entry
                    /\ f \in DOMAIN call'.entry
                    /\ buckets'[f][i][1] = _marshall_value(f, call'.entry[f]).v

C2_IndexSorted == [](C2_Ascending) /\ [][C2_InsertsConvertedKey]_vars

C2_Witness ==
    \E f \in DOMAIN buckets :
        /\ Len(buckets[f]) = 3
        /\ buckets[f][1][2] > buckets[f][2][2]
        /\ \E i \in 1..2 : buckets[f][i][1] = buckets[f][i + 1][1]
                           /\ buckets[f][i][2] < buckets[f][i + 1][2]

(* C3: an append that raises the missing-field error leaves the container  *)
(* unmodified: entries and every field index are as before the call.       *)
C3_MissingFieldAtomic ==
    [][(call'.op = "append" /\ result'.raised = "MissingFieldError")
           => (entries' = entries /\ buckets' = buckets)]_vars

(* C4: a point query find_by(field, v) on a searchable field returns       *)
(* exactly the entries whose converted field value equals the converted v, *)
(* each once, in the order of entries (empty when nothing matches).        *)
C4_PointQuery ==
    (call.op = "find_by" /\ call.value_to = None /\ Searchable(call.field_name))
        => LET key == _marshall_value(call.field_name, call.value)
           IN  /\ result.raised = "none"
               /\ result.found =
                      InArrivalOrder(InRange(call.field_name, key.v, key.v))

(* C5: a range query find_by(field, lo, hi) with lo <= hi on a searchable  *)
(* field returns exactly the entries whose converted value lies in         *)
(* [lo, hi], ordered by converted value and then by insertion order; hi    *)
(* may be any value of the key domain, zero included.  Stated on the       *)
(* containers whose indices hold one pair per entry.                       *)
C5_RangeQuery ==
    (/\ call.op = "find_by"
     /\ call.value_to # None
     /\ Searchable(call.field_name)
     /\ IndexMatchesEntries
     /\ ~KeyLess(_marshall_value(call.field_name, call.value_to).v,
                 _marshall_value(call.field_name, call.value).v))
        => /\ result.raised = "none"
           /\ result.found =
                  ByKeyThenPosition(call.field_name,
                      InRange(call.field_name,
                              _marshall_value(call.field_name, call.value).v,
                              _marshall_value(call.field_name, call.value_to).v))

(* C6: a reversed range query, find_by(field, value, value_to) with the    *)
(* converted value_to strictly below the converted value, returns the      *)
(* empty result for every explicitly supplied value_to, zero included.     *)
C6_ReversedRangeEmpty ==
    (/\ call.op = "find_by"
     /\ call.value_to # None
     /\ Searchable(call.field_name)
     /\ KeyLess(_marshall_value(call.field_name, call.value_to).v,
                _marshall_value(call.field_name, call.value).v))
        => /\ result.raised = "none"
           /\ result.found = <<>>

(* C7: find_by with a field name outside the searchable set raises the     *)
(* unknown-field error, whatever the query value and the container hold,   *)
(* and leaves the container unchanged.                                     *)
C7_UnknownFieldRaises ==
    [][(call'.op = "find_by" /\ ~Searchable(call'.field_name))
           => /\ result'.raised = "UnknownFieldError"
              /\ entries' = entries
              /\ buckets' = buckets]_vars

-----------------------------------------------------------------------------
(* Vocabulary of the properties of load: what the lines of data are. *)

TextOf(k) == LineTable[data[k]]

IsHeader(k) == _entry_re_match(TextOf(k)).matched

Segment(k) == _entry_re_match(TextOf(k)).message

\* A header whose message segment is still open at the end of the line
Opens(k) == IsHeader(k) /\ ~EndsWithBoundary(Segment(k))

\* A header whose message segment ends with the boundary marker
CompleteHeader(k) == IsHeader(k) /\ EndsWithBoundary(Segment(k))

\* A non-header line that is empty or does not end, trimmed, with the marker
Continues(k) == ~IsHeader(k) /\ ~EndsWithBoundary(rstrip(TextOf(k)))

\* A non-header line whose trimmed form ends with the marker
Closes(k) == ~IsHeader(k) /\ EndsWithBoundary(rstrip(TextOf(k)))

\* Lines h..i are an open header, continuation lines, and a closing line
Reassembled(h, i) ==
    /\ h < i
    /\ Opens(h)
    /\ \A k \in (h + 1)..(i - 1) : Continues(k)
    /\ Closes(i)

RECURSIVE Joined(_, _)
Joined(from, to) ==
    IF from > to THEN <<>> ELSE TextOf(from) \o Joined(from + 1, to)

ReassembledMessage(h, i) ==
    Segment(h) \o <<"\n">> \o Joined(h + 1, i - 1) \o rstrip(TextOf(i))

\* The entry made of the five fields of header h and the given message
EntryOfHeader(h, message) ==
    LET match == _entry_re_match(TextOf(h))
    IN  [date |-> strptime(match.date).v,
         loglevel |-> StrV(match.loglevel),
         sessionid |-> StrV(match.sessionid),
         businessid |-> StrV(match.businessid),
         requestid |-> StrV(match.requestid),
         message |-> StrV(message)]

GainsOne(entry) ==
    /\ Len(entries') = Len(entries) + 1
    /\ SubSeq(entries', 1, Len(entries)) = entries
    /\ entries'[Len(entries')] = entry

RecognizedLevels == {ERROR, WARN, DEBUG}

(* C8: an open header at line h, continuation lines (blank ones included), *)
(* then a closing line at line i yield exactly one appended entry: nothing *)
(* is appended before line i, and consuming line i appends the entry whose *)
(* message is the header's segment, a line break, the continuation lines   *)
(* verbatim and the trimmed closing line; no entry is pending afterwards.  *)
C8_Step ==
    idx' = idx + 1 =>
        /\ (Opens(idx') /\ pc' = "loading") => (entries' = entries /\ Pending')
        /\ \A h \in 1..idx :
               /\ (Opens(h) /\ \A k \in (h + 1)..idx' : Continues(k))
                      => (entries' = entries /\ Pending')
               /\ Reassembled(h, idx')
                      => /\ GainsOne(EntryOfHeader(h, ReassembledMessage(h, idx')))
                         /\ ~Pending'

C8_MultiLineReassembly == [][C8_Step]_vars

C8_Witness ==
    /\ pc = "loading"
    /\ idx = 4
    /\ Reassembled(1, 4)
    /\ TextOf(2) = <<"\n">>
    /\ TextOf(3) = <<"B", "\n">>
    /\ TextOf(4) = <<"B", "'", " ", "\n">>
    /\ Len(entries) = 1
    /\ entries[1].message = StrV(Segment(1) \o <<"\n", "\n", "B", "\n", "B", "'">>)
    /\ ~Pending

(* C9: a header line that arrives while an entry is pending discards the   *)
(* pending entry: the step appends nothing but (when the new header is     *)
(* complete) the entry of the new line alone, what is pending afterwards   *)
(* is made of the new line alone, and every entry ever appended is made of *)
(* one header and the non-header lines that follow it.                     *)
C9_FromOneHeader ==
    \A n \in 1..Len(entries) :
        \E h \in 1..idx :
            \/ CompleteHeader(h) /\ entries[n] = EntryOfHeader(h, Segment(h))
            \/ \E i \in (h + 1)..idx :
                   /\ Reassembled(h, i)
                   /\ entries[n] = EntryOfHeader(h, ReassembledMessage(h, i))

C9_Step ==
    (Pending /\ idx' = idx + 1 /\ IsHeader(idx')) =>
        /\ \/ entries' = entries
           \/ /\ CompleteHeader(idx')
              /\ GainsOne(EntryOfHeader(idx', Segment(idx')))
        /\ \/ ~Pending'
           \/ entry_data' = EntryOfHeader(idx', Segment(idx') \o <<"\n">>)

C9_HeaderDiscardsPending == [](C9_FromOneHeader) /\ [][C9_Step]_vars

C9_Witness ==
    /\ pc = "loading"
    /\ idx = 3
    /\ Opens(1)
    /\ CompleteHeader(2)
    /\ Closes(3)
    /\ entries = <<EntryOfHeader(2, Segment(2))>>
    /\ ~Pending

(* C10: on an input without unrecognized severity tokens load returns      *)
(* without raising, and entries then holds exactly the entries completed   *)
(* before the end of the input: an entry still open at the end is absent.  *)
CompletedAt(i) ==
    \/ CompleteHeader(i)
    \/ \E h \in 1..(i - 1) : Reassembled(h, i)

EntryCompletedAt(i) ==
    IF CompleteHeader(i)
    THEN EntryOfHeader(i, Segment(i))
    ELSE LET h == CHOOSE h \in 1..(i - 1) : Reassembled(h, i)
         IN  EntryOfHeader(h, ReassembledMessage(h, i))

CompletedEntries ==
    LET ends == {i \in 1..Len(data) : CompletedAt(i)}
        rank(i) == Cardinality({j \in ends : j < i})
    IN  [n \in 1..Cardinality(ends) |->
            EntryCompletedAt(CHOOSE i \in ends : rank(i) = n - 1)]

NoUnrecognizedSeverity ==
    \A k \in 1..Len(data) :
        IsHeader(k) => _entry_re_match(TextOf(k)).loglevel \in RecognizedLevels

C10_LoadReturns ==
    NoUnrecognizedSeverity =>
        /\ pc # "raised"
        /\ pc = "done" => entries = CompletedEntries

(* C11: when no entry is open (at the start of the input, and after the    *)
(* line that completed an entry, until the next header) a line that does   *)
(* not match the header grammar is ignored, blank lines and lines ending   *)
(* with the boundary marker included: load goes on with no entry open,     *)
(* entries and every field index are unchanged and nothing is raised.      *)
NothingOpenAfter(n) ==
    ~\E h \in 1..n : Opens(h) /\ \A k \in (h + 1)..n : Continues(k)

C11_Step ==
    (idx' = idx + 1 /\ NothingOpenAfter(idx) /\ ~IsHeader(idx')) =>
        /\ entries' = entries
        /\ buckets' = buckets
        /\ ~Pending'
        /\ pc' = "loading"
        /\ result' = result

C11_IdleLineIgnored == [][C11_Step]_vars

C11_Witness ==
    /\ pc = "loading"
    /\ idx = 4
    /\ TextOf(1) = <<"C", "'">>
    /\ CompleteHeader(2)
    /\ TextOf(3) = <<"\n">>
    /\ TextOf(4) = <<"B", "'", " ", "\n">>
    /\ entries = <<EntryOfHeader(2, Segment(2))>>
    /\ ~Pending

(* C12: entries is the sequence of the appended entries in arrival order:  *)
(* no step removes, replaces or reorders an entry (entries before a step   *)
(* is a prefix of entries after it), only an append adds one, and a        *)
(* successful append puts its entry at the position equal to the previous  *)
(* length, whatever the field values (keys arriving in descending order    *)
(* included).                                                              *)
IsPrefix(s, t) == Len(s) <= Len(t) /\ SubSeq(t, 1, Len(s)) = s

C12_Step ==
    /\ IsPrefix(entries, entries')
    /\ entries' # entries => (call'.op = "append" /\ Len(entries') = Len(entries) + 1)
    /\ (call'.op = "append" /\ result'.raised = "none")
           => /\ Len(entries') = Len(entries) + 1
              /\ entries'[Len(entries) + 1] = call'.entry

C12_ArrivalOrder == [][C12_Step]_vars

C12_Witness ==
    /\ call.op = "append"
    /\ result.raised = "none"
    /\ searchable_fields = <<"a">>
    /\ entries = <<[a |-> IntV(1)], [a |-> IntV(0)], [a |-> IntV(-1)]>>
    /\ buckets["a"] = <<<<IntV(-1), 2>>, <<IntV(0), 1>>, <<IntV(1), 0>>>>

(* C13: loading one well-formed header line whose message is closed on    *)
(* the same line yields exactly one entry, and str() of that entry is the  *)
(* line as it was given (without its line terminator): the six fields,     *)
(* separated by single spaces.                                             *)
WellFormedHeader(k) ==
    /\ CompleteHeader(k)
    /\ strptime(_entry_re_match(TextOf(k)).date).ok
    /\ _entry_re_match(TextOf(k)).loglevel \in RecognizedLevels

WithoutTerminator(line) ==
    IF Len(line) > 0 /\ line[Len(line)] = "\n"
    THEN SubSeq(line, 1, Len(line) - 1)
    ELSE line

C13_RoundTrip ==
    (Len(data) = 1 /\ WellFormedHeader(1) /\ pc = "done") =>
        /\ Len(entries) = 1
        /\ call.op = "str" =>
               /\ result.raised = "none"
               /\ result.found = WithoutTerminator(TextOf(1))

(* C14: the entries property returns a list of its own holding all the    *)
(* entries in insertion order: editing that list (adding, removing,        *)
(* reordering) changes neither the entries of the container, nor a field   *)
(* index, nor what find_by returns afterwards, and a later append does not *)
(* change a list returned before it.                                       *)
C14_Step ==
    /\ call'.op = "entries" => snapshot'.items = entries
    /\ call'.op = "edit" =>
           /\ entries' = entries
           /\ buckets' = buckets
           /\ \A v \in {IntV(0), IntV(1)} : find_by("a", v, None)' = find_by("a", v, None)
    /\ call'.op = "append" => snapshot'.items = snapshot.items

C14_Snapshot == [][C14_Step]_vars

C14_Witness ==
    /\ call.op = "find_by"
    /\ Len(entries) = 3
    /\ entries[1] # entries[2]
    /\ snapshot.items = <<entries[2], entries[1]>>
    /\ result.found = <<entries[1], entries[3]>>

(* C15: queries never change the container: every find_by call (point or  *)
(* range, with or without matches, returning or raising) and every call of *)
(* a query function leaves entries and every field index as they were, so *)
(* a query asked again with no append in between gives the same result.    *)
QueryOps ==
    {"find_by", "find_entries_with_log_level", "find_entries_with_business_id",
     "find_entries_within_date_range", "find_entries_with_session_id"}

\* What the query c gives when it is asked in the current state
Asked(c) ==
    CASE c.op = "find_by" -> find_by(c.field_name, c.value, c.value_to)
      [] c.op = "find_entries_with_log_level" -> find_entries_with_log_level(c.value)
      [] c.op = "find_entries_with_business_id" -> find_entries_with_business_id(c.value)
      [] c.op = "find_entries_within_date_range" ->
             find_entries_within_date_range(c.value, c.value_to)
      [] c.op = "find_entries_with_session_id" -> find_entries_with_session_id(c.value)

C15_Step ==
    call'.op \in QueryOps =>
        /\ entries' = entries
        /\ buckets' = buckets
        /\ converters' = converters

C15_SameAgain == call.op \in QueryOps => Asked(call) = result

C15_QueriesDoNotMutate == [](C15_SameAgain) /\ [][C15_Step]_vars

\* a range query with matches, a point query without, and a raising one,
\* each asked of the same three entries
C15_Witness ==
    /\ Len(entries) = 3
    /\ call.op = "find_entries_within_date_range"
    /\ Len(result.found) = 3
    /\ find_entries_with_business_id(StrV(<<"B", "I", "D", ":", "3">>)).found = <<>>
    /\ find_entries_with_log_level(StrV(FOO)).raised = "ConversionError"

(* C16: the converter registry of a container is fixed when the container *)
(* is constructed: no later step, the construction of a CustomLog          *)
(* included, changes which converter the container applies to a field in   *)
(* append or find_by.                                                      *)
AppliedConverter(field_name) ==
    IF field_name \in DOMAIN converters THEN converters[field_name] ELSE "identity"

C16_RegistryFixed ==
    [][\A f \in QueryFields \cup DOMAIN buckets :
           AppliedConverter(f)' = AppliedConverter(f)]_vars

(* C17: a field name listed more than once at construction is harmless:   *)
(* the container behaves as if the name were listed once.  When every      *)
(* entry exposes every searchable field (so every append succeeded), each  *)
(* field index holds one pair per entry and a point query returns each     *)
(* matching entry exactly once, in arrival order.                          *)
EveryAppendSucceeded ==
    \A n \in 1..Len(entries), i \in 1..Len(searchable_fields) :
        searchable_fields[i] \in DOMAIN entries[n]

C17_DuplicatesHarmless ==
    EveryAppendSucceeded =>
        /\ IndexMatchesEntries
        /\ (/\ call.op = "find_by"
            /\ call.value_to = None
            /\ Searchable(call.field_name)
            /\ result.raised = "none")
               => result.found =
                      InArrivalOrder(InRange(call.field_name,
                          _marshall_value(call.field_name, call.value).v,
                          _marshall_value(call.field_name, call.value).v))

(* C18: a line in the header format whose severity is none of ERROR, WARN, *)
(* DEBUG still matches the header grammar; the step of load that completes *)
(* its entry (the header itself, or the closing line of its message) ends  *)
(* load with the conversion error, so load never returns normally from an  *)
(* input holding such a completed entry; and find_by on the severity field *)
(* with an unrecognized token raises the conversion error as well.         *)
Level(k) == _entry_re_match(TextOf(k)).loglevel

Unrecognized(k) == IsHeader(k) /\ Level(k) \notin RecognizedLevels

\* Line i completes the entry of a header with an unrecognized severity
CompletesUnrecognized(i) ==
    \/ CompleteHeader(i) /\ Unrecognized(i)
    \/ \E h \in 1..(i - 1) : Reassembled(h, i) /\ Unrecognized(h)

C18_Grammar ==
    \A k \in 1..Len(data) :
        TextOf(k) = Header(Date2012, FOO, "1", <<"'", "X", "\n">>)
            => IsHeader(k) /\ Level(k) = FOO

C18_LoadStops ==
    pc = "done" => \A i \in 1..Len(data) : ~CompletesUnrecognized(i)

C18_Step ==
    (idx' = idx + 1 /\ CompletesUnrecognized(idx')) =>
        /\ pc' = "raised"
        /\ result'.raised = "ConversionError"

C18_Query ==
    (/\ call.op \in {"find_by", "find_entries_with_log_level"}
     /\ call.op = "find_by" => call.field_name = "loglevel"
     /\ call.value.v \notin RecognizedLevels)
        => result.raised = "ConversionError"

C18_UnrecognizedSeverityRaises ==
    [](C18_Grammar /\ C18_LoadStops /\ C18_Query) /\ [][C18_Step]_vars

C18_Witness ==
    /\ pc = "raised"
    /\ idx = 2
    /\ Reassembled(1, 2)
    /\ Level(1) = FOO
    /\ call.op = "find_entries_with_log_level"
    /\ call.value = StrV(FOO)
    /\ result.raised = "ConversionError"

(* C19: the message of every entry that load appends starts with the      *)
(* boundary marker and ends with a separate closing marker, so it has at   *)
(* least two characters; a header whose message segment is the opening     *)
(* marker alone completes nothing on its line and leaves its entry open.   *)
Delimited(message) ==
    /\ Len(message) >= 2
    /\ message[1] = _message_boundary
    /\ message[Len(message)] = _message_boundary

C19_Step ==
    (idx' = idx + 1 /\ IsHeader(idx') /\ Segment(idx') = <<_message_boundary>>
         /\ pc' = "loading")
        => (entries' = entries /\ Pending')

C19_MessageDelimited ==
    [](\A n \in 1..Len(entries) : Delimited(entries[n].message.v))
        /\ [][C19_Step]_vars

(* C20: once load has returned, find_entries_with_session_id(log, s)      *)
(* returns exactly the entries whose session id field equals s, in arrival *)
(* order, and nothing else: a query value with another four-character      *)
(* prefix and the same identifier body returns no entry.                   *)
WithSessionId(s) == {p \in 0..(Len(entries) - 1) : entries[p + 1].sessionid = s}

C20_SessionIdQuery ==
    (pc = "done" /\ call.op = "find_entries_with_session_id") =>
        /\ result.raised = "none"
        /\ result.found = InArrivalOrder(WithSessionId(call.value))

(* C21: the state of the parser does not outlive a load call.  Every call *)
(* of load starts with no entry open and leaves entries as they are; each  *)
(* line it consumes appends exactly the entry that the lines of this call  *)
(* complete at that line, and nothing otherwise, so an entry left open at  *)
(* the end of an earlier input is never completed by a later call (a first *)
(* line that only closes a message appends nothing); and the entries of    *)
(* earlier calls stay, in order, ahead of those of later calls.            *)
C21_Call ==
    (call'.op = "load" /\ idx' = 0 /\ pc' = "loading" /\ pc # "loading")
        => (entries' = entries /\ buckets' = buckets /\ ~Pending')

C21_Line ==
    idx' = idx + 1 =>
        IF CompletedAt(idx')
        THEN GainsOne(EntryCompletedAt(idx'))
        ELSE entries' = entries

C21_Step == C21_Call /\ C21_Line /\ IsPrefix(entries, entries')

C21_NoStateBetweenLoads == [][C21_Step]_vars

\* The call before ended on an open header; this call begins with a line
\* that closes a message and goes on with a complete header
C21_Witness ==
    /\ pc = "done"
    /\ call.op = "load"
    /\ Len(call.entry) = 2
    /\ _entry_re_match(LineTable[call.entry[1]]).matched
    /\ EndsWithBoundary(_entry_re_match(LineTable[call.entry[1]]).message)
    /\ _entry_re_match(LineTable[call.entry[2]]).matched
    /\ ~EndsWithBoundary(_entry_re_match(LineTable[call.entry[2]]).message)
    /\ Len(data) = 2
    /\ Closes(1)
    /\ CompleteHeader(2)
    /\ Len(entries) = 2
    /\ entries[2] = EntryOfHeader(2, Segment(2))

====
